---- MODULE Spec2Model ----
(***************************************************************************)
(* Model of the monitoring-and-logging demonstration program               *)
(* (src/unnamed/part_000; src/main.cpp is the same program with std::      *)
(* prefixes): validated division, the append-only Logger, the              *)
(* SystemMonitor tally, the batch runner procesarListaNumeros and main.    *)
(*                                                                         *)
(* Abstractions: the digits of a log timestamp are omitted (wall clock),   *)
(* only whether it was written in full is kept; a finite double is held    *)
(* as the rational it is nearest to, together with the side on which it    *)
(* lies, so that its printed digits are those the program prints (the      *)
(* numerators and denominators stay below 2 * 10^8, where the arithmetic   *)
(* of the conversions is exact in 32-bit integers); writes to an open      *)
(* file always succeed; operator new may fail once in a run (SpecFault),   *)
(* at any of the allocations the statements make; the counters of the      *)
(* SystemMonitor are 32-bit ints, and an increment of INT_MAX (undefined)  *)
(* does either of the two things the compiled program does: the counter    *)
(* wraps to INT_MIN, or the process traps and aborts.                      *)
(***************************************************************************)
EXTENDS Integers, Sequences, FiniteSets, TLC

VARIABLES
    pc,         \* position of the single thread of control
    logfile,    \* contents of system.log (lines of earlier runs first)
    pending,    \* text Logger::logfile holds that no endl has flushed yet
    priorLen,   \* number of lines system.log held when the process began
    isOpen,     \* Logger::logfile.is_open()
    alive,      \* main's logger has been constructed and not yet destroyed
    monitor,    \* SystemMonitor's three counters
    coutFixed,  \* std::cout is in fixed notation with precision 2
    pares,      \* the operand pairs handed to dividir / procesarListaNumeros
    i,          \* loop index of procesarListaNumeros (1-based)
    prueba,     \* number of the single trial (PRUEBA 1..3) main is at
    outcome,    \* what the last dividir call did; an exception in flight
    exitCode,   \* exit status of the process, -1 while it runs
    faulty,     \* operator new is going to fail once
    trace       \* every observable effect so far, in program order

vars == <<pc, logfile, pending, priorLen, isOpen, alive, monitor, coutFixed,
          pares, i, prueba, outcome, exitCode, faulty, trace>>

(***************************************************************************)
(* Bounds of the model.                                                    *)
(***************************************************************************)
MaxOperand == 2      \* SpecDiv draws finite operands from -MaxOperand..MaxOperand
MaxBatchLen == 2     \* SpecBatch draws input sequences of up to this length
MaxOps == 5          \* SpecMon and SpecMonLate record at most this many outcomes
MaxRated == 1000     \* showMetrics is called on totals up to this (or not positive)
MaxShows == 1        \* SpecMon calls showMetrics at most this many times
MaxPriorRuns == 2    \* system.log holds the entries of at most this many earlier runs
MaxAllocs == 8       \* the statements of one step make at most this many allocations

(***************************************************************************)
(* double.  [k, s, n, d, r]: k = "fin" is the double nearest to the        *)
(* rational s * n / d (in lowest terms; s = -1, n = 0 is -0.0), and r      *)
(* tells where its magnitude lies: 0 on n / d exactly, 1 above it, -1      *)
(* below it.  k = "inf" is s * infinity, k = "nan" is a NaN with sign s.   *)
(* The magnitudes of the model are far inside the normal range of a        *)
(* double, so the double has 53 significant bits.                          *)
(***************************************************************************)
RECURSIVE Gcd(_, _)
Gcd(x, y) == IF y = 0 THEN x ELSE Gcd(y, x % y)

Abs(x) == IF x < 0 THEN -x ELSE x

RECURSIVE IsPow2(_)
IsPow2(d) == d = 1 \/ (d % 2 = 0 /\ IsPow2(d \div 2))

\* n / d scaled by a power of two into [1, 2)
RECURSIVE Normal(_, _)
Normal(n, d) ==
    IF n < d THEN Normal(2 * n, d)
    ELSE IF n >= 2 * d THEN Normal(n, 2 * d)
    ELSE <<n, d>>

\* rem / d < 1 is what is left after some bits of the quotient, bits more of
\* the 53 are to come, and odd tells if the last bit was 1: the side to which
\* round-to-nearest, ties-to-even takes the quotient
RECURSIVE RoundBits(_, _, _, _)
RoundBits(rem, d, bits, odd) ==
    IF bits = 0
      THEN IF rem = 0 THEN 0
           ELSE IF 2 * rem > d THEN 1
           ELSE IF 2 * rem < d THEN -1
           ELSE IF odd THEN 1 ELSE -1
      ELSE IF 2 * rem >= d THEN RoundBits(2 * rem - d, d, bits - 1, TRUE)
           ELSE RoundBits(2 * rem, d, bits - 1, FALSE)

\* where the double nearest to n / d lies (n >= 0, d > 0, lowest terms)
Rounding(n, d) ==
    IF n = 0 \/ IsPow2(d) THEN 0
    ELSE LET nd == Normal(n, d)
         IN  RoundBits(nd[1] - nd[2], nd[2], 52, TRUE)

Fin(s, n, d) ==
    LET g == IF n = 0 THEN d ELSE Gcd(n, d)
    IN  [k |-> "fin", s |-> s, n |-> n \div g, d |-> d \div g,
         r |-> Rounding(n \div g, d \div g)]

D(x) == Fin(IF x < 0 THEN -1 ELSE 1, Abs(x), 1)
NegZero == Fin(-1, 0, 1)
NaN == [k |-> "nan", s |-> 1, n |-> 0, d |-> 1, r |-> 0]
Inf(s) == [k |-> "inf", s |-> s, n |-> 0, d |-> 1, r |-> 0]
\* the NaN an invalid division (inf / inf, 0 / 0) produces: its sign bit is set
Indefinite == [k |-> "nan", s |-> -1, n |-> 0, d |-> 1, r |-> 0]

IsNaN(x) == x.k = "nan"
\* x == 0
IsZero(x) == x.k = "fin" /\ x.n = 0
\* x < 0
IsNeg(x) == x.k # "nan" /\ x.s = -1 /\ ~IsZero(x)
\* x > 0
IsPos(x) == x.k # "nan" /\ x.s = 1 /\ ~IsZero(x)
\* x >= 0
IsGeqZero(x) == IsZero(x) \/ IsPos(x)

\* a / b in IEEE arithmetic, of operands that are the rationals they hold
\* (r = 0): one rounding, of the exact quotient
Quotient(a, b) ==
    IF IsNaN(a) THEN a
    ELSE IF IsNaN(b) THEN b
    ELSE IF a.k = "inf" THEN (IF b.k = "inf" THEN Indefinite ELSE Inf(a.s * b.s))
    ELSE IF b.k = "inf" THEN Fin(a.s * b.s, 0, 1)
    ELSE IF b.n = 0 THEN (IF a.n = 0 THEN Indefinite ELSE Inf(a.s * b.s))
    ELSE Fin(a.s * b.s, a.n * b.d, a.d * b.n)

(***************************************************************************)
(* Exceptions and dividir.                                                 *)
(***************************************************************************)
What(exc) ==
    CASE exc = "DivisionByZeroException" -> "Error: División entre cero detectada."
      [] exc = "NegativeNumberException" ->
             "Error: Número negativo no permitido en esta operación."
      [] exc = "runtime_error" -> "No se pudo abrir el archivo de log: system.log"
      [] exc = "bad_alloc" -> "std::bad_alloc"
      [] OTHER -> ""

Returned(v) == [ok |-> TRUE, exc |-> "none", val |-> v]
Thrown(e) == [ok |-> FALSE, exc |-> e, val |-> NaN]
NoOutcome == [ok |-> FALSE, exc |-> "none", val |-> NaN]

\* variant: the zero check is missing
dividir_noZeroCheck(a, b) ==
    IF IsNeg(a) \/ IsNeg(b) THEN Thrown("NegativeNumberException")
    ELSE Returned(Quotient(a, b))

\* variant: the sign check comes before the zero check
dividir_negativeFirst(a, b) ==
    IF IsNeg(a) \/ IsNeg(b) THEN Thrown("NegativeNumberException")
    ELSE IF IsZero(b) THEN Thrown("DivisionByZeroException")
    ELSE Returned(Quotient(a, b))

dividir(a, b) ==
    IF IsZero(b) THEN Thrown("DivisionByZeroException")
    ELSE IF IsNeg(a) \/ IsNeg(b) THEN Thrown("NegativeNumberException")
    ELSE Returned(Quotient(a, b))

(***************************************************************************)
(* Text conversions of the C++ library, as the program uses them.  The     *)
(* digits printed are those of the double rounded to nearest: they are     *)
(* the digits of the rational rounded to nearest, except on a decimal tie  *)
(* of the rational, where the side on which the double lies decides, and   *)
(* a double that is the tie itself goes to the even digit.                 *)
(***************************************************************************)
RECURSIVE Pow10(_)
Pow10(e) == IF e <= 0 THEN 1 ELSE 10 * Pow10(e - 1)

RECURSIVE NumDigits(_)
NumDigits(x) == IF x < 10 THEN 1 ELSE 1 + NumDigits(x \div 10)

RECURSIVE Zeros(_)
Zeros(c) == IF c <= 0 THEN "" ELSE "0" \o Zeros(c - 1)

\* x written in exactly w digits (w >= NumDigits(x))
ZeroPad(x, w) == Zeros(w - NumDigits(x)) \o ToString(x)

\* long division: p more decimal digits of the quotient whose digits so far
\* are acc and whose remainder over d is rem; the digits and what is left
RECURSIVE LongDiv(_, _, _, _)
LongDiv(acc, rem, d, p) ==
    IF p <= 0 THEN <<acc, rem>>
    ELSE LongDiv(10 * acc + (10 * rem) \div d, (10 * rem) % d, d, p - 1)

\* whether the digits m of n / d, after which rem / d is left, are rounded up
\* when it is the double nearest to n / d, lying on side r of it, that is
\* rounded to nearest
RoundsUp(m, rem, d, r) ==
    IF 2 * rem > d THEN TRUE
    ELSE IF 2 * rem < d THEN FALSE
    ELSE r = 1 \/ (r = 0 /\ m % 2 = 1)

SignText(x) == IF x.s = -1 THEN "-" ELSE ""

NonFiniteText(x) == SignText(x) \o (IF x.k = "nan" THEN "nan" ELSE "inf")

\* printf("%.<p>f"): what std::fixed << std::setprecision(p) and std::to_string (p = 6) print
FormatFixed(x, p) ==
    IF x.k # "fin" THEN NonFiniteText(x)
    ELSE LET whole == x.n \div x.d
             ld == LongDiv(0, x.n % x.d, x.d, p)
             up == RoundsUp(IF p > 0 THEN ld[1] ELSE whole, ld[2], x.d, x.r)
             frac == ld[1] + (IF up THEN 1 ELSE 0)
             carry == frac >= Pow10(p)
         IN  SignText(x) \o ToString(whole + (IF carry THEN 1 ELSE 0))
             \o (IF p > 0
                   THEN "." \o ZeroPad(IF carry THEN frac - Pow10(p) ELSE frac, p)
                   ELSE "")

to_string(x) == FormatFixed(x, 6)

\* the decimal exponent of n / d > 0: the X with 10^X <= n / d < 10^(X + 1)
RECURSIVE Exp10(_, _)
Exp10(n, d) ==
    IF n < d THEN Exp10(n * 10, d) - 1
    ELSE IF n >= 10 * d THEN Exp10(n, d * 10) + 1
    ELSE 0

\* m * 10^(-dec) without trailing zeros of the fraction, and without the point
\* when no fraction is left
RECURSIVE Stripped(_, _)
Stripped(m, dec) ==
    IF dec = 0 THEN ToString(m)
    ELSE IF m % 10 = 0 THEN Stripped(m \div 10, dec - 1)
    ELSE ToString(m \div Pow10(dec)) \o "." \o ZeroPad(m % Pow10(dec), dec)

\* the digits of m > 0 without its trailing zeros
RECURSIVE StripZeros(_)
StripZeros(m) == IF m % 10 = 0 THEN StripZeros(m \div 10) ELSE ToString(m)

\* printf("%g"): what an ostream in its default state (precision 6, no
\* floatfield) prints for a double
FormatDefault(x) ==
    IF x.k # "fin" THEN NonFiniteText(x)
    ELSE IF x.n = 0 THEN SignText(x) \o "0"
    ELSE LET e0 == Exp10(x.n, x.d)
             \* six significant digits
             dd == x.d * Pow10(e0 - 5)
             ld == IF e0 <= 5 THEN LongDiv(x.n \div x.d, x.n % x.d, x.d, 5 - e0)
                   ELSE <<x.n \div dd, x.n % dd>>
             m0 == ld[1] + (IF RoundsUp(ld[1], ld[2], dd, x.r) THEN 1 ELSE 0)
             carry == m0 >= Pow10(6)
             m == IF carry THEN m0 \div 10 ELSE m0
             e == IF carry THEN e0 + 1 ELSE e0
         IN  SignText(x) \o
             (IF e >= -4 /\ e < 6
                THEN (IF e >= 0 THEN Stripped(m, 5 - e)
                      ELSE "0." \o Zeros(-e - 1) \o StripZeros(m))
                ELSE Stripped(m, 5) \o "e" \o (IF e < 0 THEN "-" ELSE "+")
                     \o ZeroPad(Abs(e), 2))

(***************************************************************************)
(* The effects of the program are applied to a record w ("world"):         *)
(*   file  - lines of system.log           open  - the handle is open      *)
(*   pend  - text the ofstream buffers     mon   - the monitor's counters  *)
(*   fixed - cout is in fixed/precision 2  trace - every effect, in order  *)
(*   at    - batch item being worked       exc   - exception in flight     *)
(*   fuel  - the fuel-th allocation from here fails (0: none does)         *)
(*   failed - an allocation has failed                                     *)
(*   bad, ts - the stringstream at hand has badbit set; the timestamp made *)
(* so that a sequence of C++ statements is a chain of operators.  While an *)
(* exception is in flight the statements that follow are skipped.  Where a *)
(* world is looked at more than once it is named by a variable v ranging   *)
(* over the one world {...}, and The takes the result out of the set.      *)
(***************************************************************************)
The(S) == CHOOSE x \in S : TRUE

Ev(op, lvl, msg, at) == [op |-> op, lvl |-> lvl, msg |-> msg, at |-> at]

Running(w) == w.exc = "none"

Emit(w, op, lvl, msg) ==
    IF Running(w) THEN [w EXCEPT !.trace = Append(@, Ev(op, lvl, msg, w.at))] ELSE w

\* throw e
Throw(w, e) == IF Running(w) THEN [w EXCEPT !.exc = e] ELSE w

\* operator new, for the object named: it returns, or it is the allocation
\* that fails and throws std::bad_alloc.  An object built in several
\* allocations is one allocation here: they all fail the same way.
Alloc(w, what) ==
    IF ~Running(w) THEN w
    ELSE IF w.fuel = 1
      THEN Throw(Emit([w EXCEPT !.fuel = 0, !.failed = TRUE],
                      "bad_alloc", "thrown", what), "bad_alloc")
      ELSE [w EXCEPT !.fuel = IF @ > 0 THEN @ - 1 ELSE 0]

\* operator new under a formatted insertion (operator<<) into a stringstream:
\* the inserter catches std::bad_alloc and sets badbit, so the stream keeps
\* the 15 characters it had room for and ignores what is inserted next
StreamAlloc(w, what) ==
    IF ~Running(w) THEN w
    ELSE IF w.fuel = 1
      THEN Emit([w EXCEPT !.fuel = 0, !.failed = TRUE, !.bad = TRUE],
                "bad_alloc", "caught", what)
      ELSE [w EXCEPT !.fuel = IF @ > 0 THEN @ - 1 ELSE 0, !.bad = FALSE]

\* the console marks U+2713 and U+2717 (with the space after them), which the
\* strings of the model cannot hold
Tick == "[v] "
Cross == "[x] "

cout(w, text) == Emit(w, "cout", "", text)
cerr(w, text) == Emit(w, "cerr", "", text)

\* cout << x for a double x, in the notation cout is in
CoutDouble(w, x) == IF w.fixed THEN FormatFixed(x, 2) ELSE FormatDefault(x)

(***************************************************************************)
(* Logger                                                                  *)
(***************************************************************************)
INFO == 0
WARNING == 1
ERROR == 2
CRITICAL == 3
DEBUG == 4

LevelStr(level) ==
    CASE level = INFO -> "INFO"
      [] level = WARNING -> "WARNING"
      [] level = ERROR -> "ERROR"
      [] level = CRITICAL -> "CRITICAL"
      [] level = DEBUG -> "DEBUG"
      [] OTHER -> ""

\* a line of system.log, "<pre>[<timestamp>] [<level>] <msg>": pre is what the
\* stream still held when the line was begun, ts is "full" for a complete
\* timestamp and "cut" for its first 15 characters
Line(pre, ts, levelStr, message) ==
    [pre |-> pre, ts |-> ts, level |-> levelStr, msg |-> message]

\* the line a log call writes when nothing fails
Entry(level, message) == Line("", "full", LevelStr(level), message)

\* text at the end of the file that no newline follows
Unterminated(text) == Line(text, "none", "", "")

\* Logger::getCurrentTimestamp: put_time into a stringstream, then str()
getCurrentTimestamp(w) ==
    IF ~Running(w) THEN w
    ELSE The({ IF v.bad
                 \* the 15 characters of a stream gone bad need no allocation
                 THEN [v EXCEPT !.ts = "cut"]
                 ELSE [Alloc(v, "timestamp") EXCEPT !.ts = "full"]
               : v \in {StreamAlloc(w, "timestamp")} })

\* Logger::log: "[" is inserted, then the timestamp is made, then the rest of
\* the line is inserted and endl flushes it; a stream that is not open takes
\* the call and writes nothing
log(w, level, message) ==
    IF ~Running(w) THEN w
    ELSE The({ IF ~Running(v) THEN v
               ELSE Emit([v EXCEPT !.pend = "",
                                   !.file = IF w.open
                                              THEN Append(@, Line(w.pend, v.ts,
                                                                  LevelStr(level), message))
                                              ELSE @],
                         "log", LevelStr(level), message)
               : v \in {getCurrentTimestamp(
                           [w EXCEPT !.pend = IF w.open THEN @ \o "[" ELSE @])} })

\* ofstream::close, and ~ofstream of a stream that is open: what is buffered
\* goes to the file, the handle is released
CloseStream(w) ==
    IF ~w.open THEN w
    ELSE Emit([w EXCEPT !.open = FALSE, !.pend = "",
                        !.file = IF w.pend = "" THEN @
                                 ELSE Append(@, Unterminated(w.pend))],
              "close", "", "system.log")

\* an exception leaves a destructor: std::terminate reports it on the error
\* stream and aborts; what the stream buffered is lost, nothing is closed
Terminate(w) ==
    LET w0 == [w EXCEPT !.exc = "none"]
        w1 == cerr(w0, "terminate called after throwing an instance of '"
                       \o What(w.exc) \o "'")
        w2 == cerr(w1, "  what():  " \o What(w.exc))
        w3 == Emit(w2, "abort", "", "SIGABRT")
    IN  [w3 EXCEPT !.exc = "terminate", !.pend = ""]

\* variant: the first entry is logged before the stream is opened
LoggerCtor_logBeforeOpen(w, opens) ==
    IF opens
      THEN Emit([log(Alloc(w, "Sistema iniciado"), INFO, "Sistema iniciado")
                   EXCEPT !.open = TRUE], "open", "", "system.log")
      ELSE Throw(Alloc(Emit(w, "open_failed", "", "system.log"), "runtime_error"),
                 "runtime_error")

\* Logger::Logger.  The file opens and the stream allocates its buffer, or
\* the constructor throws; the first entry is logged.  When the constructor
\* throws, the stream it has constructed is destroyed.
LoggerCtor(w, opens) ==
    IF opens
      THEN LET w1 == Emit([w EXCEPT !.open = TRUE], "open", "", "system.log")
               w2 == Alloc(w1, "filebuf")
               w3 == Alloc(w2, "Sistema iniciado")
           IN  The({ IF Running(v) THEN v
                     \* ~ofstream, while the exception is in flight
                     ELSE [CloseStream([v EXCEPT !.exc = "none"]) EXCEPT !.exc = v.exc]
                     : v \in {log(w3, INFO, "Sistema iniciado")} })
      ELSE Throw(Alloc(Emit(w, "open_failed", "", "system.log"), "runtime_error"),
                 "runtime_error")

\* the body of Logger::~Logger
LoggerDtorBody(w) ==
    The({ IF Running(v) THEN CloseStream(v) ELSE v
          : v \in {log(Alloc(w, "Sistema finalizado"), INFO, "Sistema finalizado")} })

\* Logger::~Logger, at the end of the scope or while an exception is in
\* flight: a destructor is noexcept
LoggerDtor(w) ==
    The({ IF Running(v) THEN [v EXCEPT !.exc = w.exc] ELSE Terminate(v)
          : v \in {LoggerDtorBody([w EXCEPT !.exc = "none"])} })

\* variant: the exception is logged at WARNING level
logException_asWarning(w, exc) ==
    log(Alloc(w, "Excepción capturada"), WARNING, "Excepción capturada: " \o What(exc))

logException(w, exc) ==
    log(Alloc(w, "Excepción capturada"), ERROR, "Excepción capturada: " \o What(exc))

\* the value of (totalOps > 0 ? (successOps * 100.0 / totalOps) : 0)
SuccessRate(totalOps, successOps) ==
    IF totalOps > 0 THEN Fin(1, successOps * 100, totalOps) ELSE D(0)

MetricsText(totalOps, successOps, failedOps, rateText) ==
    "Métricas - Total: " \o ToString(totalOps)
    \o " | Exitosas: " \o ToString(successOps)
    \o " | Fallidas: " \o ToString(failedOps)
    \o " | Tasa de éxito: " \o rateText \o "%"

\* the 15 characters (bytes) a stringstream holds without allocating
MetricsCut == "Métricas - Tot"

logMetrics(w, totalOps, successOps, failedOps) ==
    IF ~Running(w) THEN w
    ELSE The({ IF v.bad THEN log(v, INFO, MetricsCut)
               ELSE log(Alloc(v, "Métricas"), INFO,
                        MetricsText(totalOps, successOps, failedOps,
                                    FormatDefault(SuccessRate(totalOps, successOps))))
               : v \in {StreamAlloc(w, "Métricas")} })

(***************************************************************************)
(* SystemMonitor                                                           *)
(***************************************************************************)
\* the counters are of type int
INT_MAX == 2147483647
INT_MIN == -2147483647 - 1

MonitorCtor ==
    [totalOperations |-> 0, successfulOperations |-> 0, failedOperations |-> 0]

\* what ++ does to a counter that holds INT_MAX (signed overflow, undefined):
\* the stored value wraps, or the overflow check of the build aborts
OverflowOutcomes == {"wrap", "trap"}

\* the counter after ++
Incremented(x) == IF x = INT_MAX THEN INT_MIN ELSE x + 1

\* the process is stopped by SIGABRT: nothing is unwound, flushed or closed
Trap(w) == [Emit(w, "abort", "", "SIGABRT") EXCEPT !.exc = "terminate", !.pend = ""]

\* the statement counter++, u being what an overflow does
Increment(w, counter, u) ==
    IF ~Running(w) THEN w
    ELSE IF w.mon[counter] = INT_MAX /\ u = "trap" THEN Trap(w)
    ELSE [w EXCEPT !.mon[counter] = Incremented(@)]

recordSuccess(w, u) ==
    IF ~Running(w) THEN w
    ELSE The({ IF Running(v) THEN Emit(v, "recordSuccess", "", "") ELSE v
               : v \in {Increment(Increment(w, "totalOperations", u),
                                  "successfulOperations", u)} })

recordFailure(w, u) ==
    IF ~Running(w) THEN w
    ELSE The({ IF Running(v) THEN Emit(v, "recordFailure", "", "") ELSE v
               : v \in {Increment(Increment(w, "totalOperations", u),
                                  "failedOperations", u)} })

MetricsHeader == "========== MÉTRICAS DEL SISTEMA =========="

\* the rate line leaves cout in fixed notation with precision 2
showMetrics(w) ==
    LET m  == w.mon
        w1 == cout(w, MetricsHeader)
        w2 == cout(w1, "Total de operaciones: " \o ToString(m.totalOperations))
        w3 == cout(w2, "Operaciones exitosas: " \o ToString(m.successfulOperations))
        w4 == cout(w3, "Operaciones fallidas: " \o ToString(m.failedOperations))
        w5 == IF m.totalOperations > 0
                THEN cout([w4 EXCEPT !.fixed = TRUE],
                          "Tasa de éxito: "
                          \o FormatFixed(Fin(1, m.successfulOperations * 100,
                                             m.totalOperations), 2) \o "%")
                ELSE w4
        w6 == cout(w5, "==========================================")
    IN  logMetrics(w6, m.totalOperations, m.successfulOperations, m.failedOperations)

(***************************************************************************)
(* The state as a world, and back.  An action runs its statements on the   *)
(* world of the state, with the allocation that fails chosen among those   *)
(* the statements make.                                                    *)
(***************************************************************************)
World(at, fuel) ==
    [file |-> logfile, pend |-> pending, open |-> isOpen, mon |-> monitor,
     fixed |-> coutFixed, trace |-> trace, at |-> at, exc |-> "none",
     fuel |-> fuel, failed |-> FALSE, bad |-> FALSE, ts |-> "full"]

\* the allocation of a step that fails: none (0), or the f-th it makes
FailPoints == IF faulty THEN 0..MaxAllocs ELSE {0}

\* the f-th allocation was made, and failed
FailsAt(w, f) == f = 0 \/ w.failed

Commit(w) ==
    /\ logfile' = w.file
    /\ pending' = w.pend
    /\ isOpen' = w.open
    /\ monitor' = w.mon
    /\ coutFixed' = w.fixed
    /\ trace' = w.trace
    /\ faulty' = (faulty /\ ~w.failed)

\* the process was aborted in the statements
Aborted(w) == w.exc = "terminate"

\* the exception that is in flight when the statements end, if one is
InFlight(w, otherwise) ==
    IF Running(w) \/ Aborted(w) THEN otherwise ELSE Thrown(w.exc)

\* where control is when the statements end: after them, in the handler of
\* the exception they threw, or nowhere
Control(w, next, handler) ==
    IF Running(w) THEN next ELSE IF Aborted(w) THEN "aborted" ELSE handler

\* the exit status when the statements end
Status(w) == IF Aborted(w) THEN 134 ELSE exitCode

\* dividir called: it returns, or it builds the exception it throws
Dividir(w, a, b) ==
    The({ IF r.ok THEN Emit(w, "dividir", "", "")
          ELSE Throw(Alloc(Emit(w, "dividir", "", ""), r.exc), r.exc)
          : r \in {dividir(a, b)} })

(***************************************************************************)
(* procesarListaNumeros.  An exception that leaves the function takes      *)
(* control to "unwind", where the caller's stack is unwound.               *)
(***************************************************************************)
\* header and first log line, then the loop starts at the first pair
BatchBegin ==
    /\ pc = "batch_start"
    /\ LET Body(w0) ==
               LET w1 == cout(w0, "===== PROCESAMIENTO EN TIEMPO REAL =====")
                   w2 == Alloc(w1, "Iniciando procesamiento")
               IN  log(w2, INFO, "Iniciando procesamiento de lista de números")
       IN  \E f \in FailPoints :
             \E w \in {Body(World(0, f))} :
                 /\ FailsAt(w, f)
                 /\ Commit(w)
                 /\ outcome' = InFlight(w, outcome)
                 /\ pc' = IF Running(w) THEN "batch_loop" ELSE "unwind"
    /\ i' = 1
    /\ UNCHANGED <<priorLen, alive, pares, prueba, exitCode>>

\* i < pares.size(): the pair is announced on the console and in the log
BatchAnnounce ==
    /\ pc = "batch_loop"
    /\ i <= Len(pares)
    /\ LET a == pares[i][1]
           b == pares[i][2]
           Body(w0) ==
               LET w1 == cout(w0, "Operación #" \o ToString(i) \o ": "
                                  \o CoutDouble(w0, a) \o " / " \o CoutDouble(w0, b))
                   w2 == Alloc(w1, "Procesando operación")
               IN  log(w2, DEBUG, "Procesando operación: " \o to_string(a)
                                  \o " / " \o to_string(b))
       IN  \E f \in FailPoints :
             \E w \in {Body(World(i, f))} :
                 /\ FailsAt(w, f)
                 /\ Commit(w)
                 /\ outcome' = InFlight(w, outcome)
                 /\ pc' = IF Running(w) THEN "batch_try" ELSE "unwind"
    /\ UNCHANGED <<priorLen, alive, pares, i, prueba, exitCode>>

\* the try block: dividir, and on its return the result is printed, logged
\* and recorded; an exception passes control to the handlers
BatchTry ==
    /\ pc = "batch_try"
    /\ LET r == dividir(pares[i][1], pares[i][2])
           Body(w0, u) ==
               LET w1 == Dividir(w0, pares[i][1], pares[i][2])
                   w2 == cout(w1, Tick \o "Resultado: " \o CoutDouble(w0, r.val))
                   w3 == Alloc(w2, "Operación exitosa")
                   w4 == log(w3, INFO,
                             "Operación exitosa. Resultado: " \o to_string(r.val))
               IN  recordSuccess(w4, u)
       IN  \E f \in FailPoints, u \in OverflowOutcomes :
             \E w \in {Body(World(i, f), u)} :
                 /\ FailsAt(w, f)
                 /\ Commit(w)
                 /\ outcome' = InFlight(w, r)
                 /\ pc' = Control(w, "batch_sleep", "batch_catch")
                 /\ exitCode' = Status(w)
    /\ UNCHANGED <<priorLen, alive, pares, i, prueba>>

\* variant: a handled failure leaves the loop
BatchCatch_aborts ==
    /\ pc = "batch_catch"
    /\ LET e  == outcome.exc
           w1 == cerr(World(i, 0), Cross \o What(e))
           w2 == logException(w1, e)
       IN  \E u \in OverflowOutcomes :
             \E w \in {recordFailure(w2, u)} :
                 /\ Commit(w)
                 /\ pc' = Control(w, "batch_done", "unwind")
                 /\ exitCode' = Status(w)
    /\ UNCHANGED <<priorLen, alive, pares, i, prueba, outcome>>

\* the three handlers: DivisionByZeroException, NegativeNumberException,
\* and any other std::exception
BatchCatch ==
    /\ pc = "batch_catch"
    /\ LET e == outcome.exc
           Body(w0, u) ==
               LET w1 == IF e \in {"DivisionByZeroException", "NegativeNumberException"}
                           THEN cerr(w0, Cross \o What(e))
                           ELSE cerr(w0, Cross \o "Excepción inesperada: " \o What(e))
                   w2 == logException(w1, e)
               IN  recordFailure(w2, u)
       IN  \E f \in FailPoints, u \in OverflowOutcomes :
             \E w \in {Body(World(i, f), u)} :
                 /\ FailsAt(w, f)
                 /\ Commit(w)
                 /\ outcome' = InFlight(w, outcome)
                 /\ pc' = Control(w, "batch_sleep", "unwind")
                 /\ exitCode' = Status(w)
    /\ UNCHANGED <<priorLen, alive, pares, i, prueba>>

\* this_thread::sleep_for(500 ms), then i++
BatchSleep ==
    /\ pc = "batch_sleep"
    /\ Commit(Emit(World(i, 0), "sleep", "", "500ms"))
    /\ i' = i + 1
    /\ pc' = "batch_loop"
    /\ UNCHANGED <<priorLen, alive, pares, prueba, outcome, exitCode>>

\* the loop condition fails: last log line, return to the caller
BatchEnd ==
    /\ pc = "batch_loop"
    /\ i > Len(pares)
    /\ LET Body(w0) ==
               log(Alloc(w0, "Procesamiento de lista completado"), INFO,
                   "Procesamiento de lista completado")
       IN  \E f \in FailPoints :
             \E w \in {Body(World(0, f))} :
                 /\ FailsAt(w, f)
                 /\ Commit(w)
                 /\ outcome' = InFlight(w, outcome)
                 /\ pc' = IF Running(w) THEN "batch_done" ELSE "unwind"
    /\ UNCHANGED <<priorLen, alive, pares, i, prueba, exitCode>>

NextBatch ==
    \/ BatchBegin
    \/ BatchAnnounce
    \/ BatchTry
    \/ BatchCatch
    \/ BatchSleep
    \/ BatchEnd

(***************************************************************************)
(* main                                                                    *)
(***************************************************************************)
\* the classes derived from std::exception that can be in flight
AllExceptions ==
    {"DivisionByZeroException", "NegativeNumberException", "runtime_error",
     "bad_alloc"}

\* PRUEBA 1..3: the operands, the texts, and the exceptions the trial's
\* handler catches
Pruebas ==
    << [titulo  |-> "--- PRUEBA 1: División entre cero ---",
        intento |-> "Intentando dividir 10 / 0",
        a |-> D(10), b |-> D(0),
        exito |-> "Resultado: ", logExito |-> FALSE,
        catches |-> {"DivisionByZeroException"}],
       [titulo  |-> "--- PRUEBA 2: Números negativos ---",
        intento |-> "Intentando dividir -5 / 2",
        a |-> D(-5), b |-> D(2),
        exito |-> "Resultado: ", logExito |-> FALSE,
        catches |-> {"NegativeNumberException"}],
       [titulo  |-> "--- PRUEBA 3: División válida ---",
        intento |-> "Intentando dividir 100 / 5",
        a |-> D(100), b |-> D(5),
        exito |-> Tick \o "Resultado: ", logExito |-> TRUE,
        catches |-> AllExceptions] >>

listaOperaciones ==
    << <<D(100), D(5)>>, <<D(50), D(0)>>, <<D(81), D(9)>>, <<D(-10), D(2)>>,
       <<D(200), D(10)>>, <<D(7), D(0)>>, <<D(144), D(12)>>, <<D(-50), D(-5)>> >>

\* Logger logger("system.log"): the file opens or it does not; an exception
\* that leaves the constructor leaves main's try block
MainLoggerCtor ==
    /\ pc = "main_start"
    /\ \E opens \in BOOLEAN :
         LET Body(w0) == LoggerCtor(w0, opens)
         IN  \E f \in FailPoints :
               \E w \in {Body(World(0, f))} :
                   /\ FailsAt(w, f)
                   /\ Commit(w)
                   /\ alive' = Running(w)
                   /\ outcome' = InFlight(w, outcome)
                   /\ pc' = IF Running(w) THEN "monitor_ctor" ELSE "unwind"
    /\ UNCHANGED <<priorLen, pares, i, prueba, exitCode>>

\* SystemMonitor monitor(logger)
MainMonitorCtor ==
    /\ pc = "monitor_ctor"
    /\ Commit(Emit([World(0, 0) EXCEPT !.mon = MonitorCtor], "SystemMonitor", "", ""))
    /\ pc' = "banner"
    /\ UNCHANGED <<priorLen, alive, pares, i, prueba, outcome, exitCode>>

MainBanner ==
    /\ pc = "banner"
    /\ LET w1 == cout(World(0, 0), "========================================")
           w2 == cout(w1, "  SISTEMA DE MONITOREO Y LOGGING")
           w3 == cout(w2, "========================================")
       IN  Commit(w3)
    /\ prueba' = 1
    /\ pc' = "prueba_try"
    /\ UNCHANGED <<priorLen, alive, pares, i, outcome, exitCode>>

AfterPrueba == IF prueba < Len(Pruebas) THEN "prueba_try" ELSE "lista"

\* the title and the try block of a single trial
PruebaTry ==
    /\ pc = "prueba_try"
    /\ LET t == Pruebas[prueba]
           r == dividir(t.a, t.b)
           Body(w0, u) ==
               LET w1 == cout(w0, t.titulo)
                   w2 == log(Alloc(w1, t.intento), INFO, t.intento)
                   w3 == Dividir(w2, t.a, t.b)
                   w4 == cout(w3, t.exito \o CoutDouble(w0, r.val))
               IN  IF t.logExito
                     THEN recordSuccess(log(Alloc(w4, "Operación exitosa"), INFO,
                                            "Operación exitosa: 100 / 5 = 20"), u)
                     ELSE recordSuccess(w4, u)
       IN  \E f \in FailPoints, u \in OverflowOutcomes :
             \E w \in {Body(World(0, f), u)} :
                 /\ FailsAt(w, f)
                 /\ Commit(w)
                 /\ outcome' = InFlight(w, r)
                 /\ pc' = Control(w, AfterPrueba, "prueba_catch")
                 /\ exitCode' = Status(w)
                 /\ prueba' = IF Running(w) /\ prueba < Len(Pruebas)
                                THEN prueba + 1 ELSE prueba
    /\ UNCHANGED <<priorLen, alive, pares, i>>

\* the trial's handler; an exception it does not catch, or one its handler
\* throws, leaves main's try block
PruebaCatch ==
    /\ pc = "prueba_catch"
    /\ LET t == Pruebas[prueba]
           e == outcome.exc
           Body(w0, u) ==
               IF e \in t.catches
                 THEN LET w1 == cerr(w0, Cross \o What(e))
                          w2 == logException(w1, e)
                      IN  recordFailure(w2, u)
                 ELSE Throw(w0, e)
       IN  \E f \in FailPoints, u \in OverflowOutcomes :
             \E w \in {Body(World(0, f), u)} :
                 /\ FailsAt(w, f)
                 /\ Commit(w)
                 /\ outcome' = InFlight(w, outcome)
                 /\ pc' = Control(w, AfterPrueba, "unwind")
                 /\ exitCode' = Status(w)
                 /\ prueba' = IF Running(w) /\ prueba < Len(Pruebas)
                                THEN prueba + 1 ELSE prueba
    /\ UNCHANGED <<priorLen, alive, pares, i>>

\* variant: the batch is given a monitor of its own
MainLista_freshMonitor ==
    /\ pc = "lista"
    /\ pares' = listaOperaciones
    /\ monitor' = MonitorCtor
    /\ pc' = "batch_start"
    /\ UNCHANGED <<logfile, pending, priorLen, isOpen, alive, coutFixed, i, prueba,
                   outcome, exitCode, faulty, trace>>

\* PRUEBA 4: the literal list is built and handed to procesarListaNumeros
MainLista ==
    /\ pc = "lista"
    /\ LET Body(w0) == Alloc(w0, "listaOperaciones")
       IN  \E f \in FailPoints :
             \E w \in {Body(World(0, f))} :
                 /\ FailsAt(w, f)
                 /\ Commit(w)
                 /\ outcome' = InFlight(w, outcome)
                 /\ pares' = IF Running(w) THEN listaOperaciones ELSE pares
                 /\ pc' = IF Running(w) THEN "batch_start" ELSE "unwind"
    /\ UNCHANGED <<priorLen, alive, i, prueba, exitCode>>

MainShowMetrics ==
    /\ pc = "batch_done"
    /\ LET Body(w0) == showMetrics(w0)
       IN  \E f \in FailPoints :
             \E w \in {Body(World(0, f))} :
                 /\ FailsAt(w, f)
                 /\ Commit(w)
                 /\ outcome' = InFlight(w, outcome)
                 /\ pc' = IF Running(w) THEN "epilogue" ELSE "unwind"
    /\ UNCHANGED <<priorLen, alive, pares, i, prueba, exitCode>>

MainEpilogue ==
    /\ pc = "epilogue"
    /\ LET w1 == cout(World(0, 0),
                   Tick \o "Verifica el archivo 'system.log' para ver los registros completos.")
           w2 == cout(w1, "========================================")
           w3 == cout(w2, "  EJECUCIÓN COMPLETADA")
           w4 == cout(w3, "========================================")
       IN  Commit(w4)
    /\ pc' = "scope_exit"
    /\ UNCHANGED <<priorLen, alive, pares, i, prueba, outcome, exitCode>>

\* the closing brace of main's try block: logger is destroyed
MainScopeExit ==
    /\ pc = "scope_exit"
    /\ LET Body(w0) == LoggerDtor(w0)
       IN  \E f \in FailPoints :
             \E w \in {Body(World(0, f))} :
                 /\ FailsAt(w, f)
                 /\ Commit(w)
                 /\ pc' = IF Running(w) THEN "return" ELSE "aborted"
                 /\ exitCode' = IF Running(w) THEN exitCode ELSE 134
    /\ alive' = FALSE
    /\ UNCHANGED <<priorLen, pares, i, prueba, outcome>>

\* an exception has left main's try block: logger is destroyed if it was
\* constructed, and control reaches main's handler
MainUnwind ==
    /\ pc = "unwind"
    /\ LET Body(w0) ==
               IF alive THEN LoggerDtor([w0 EXCEPT !.exc = outcome.exc])
               ELSE [w0 EXCEPT !.exc = outcome.exc]
       IN  \E f \in FailPoints :
             \E w \in {Body(World(0, f))} :
                 /\ FailsAt(w, f)
                 /\ Commit(w)
                 /\ pc' = IF w.exc = "terminate" THEN "aborted" ELSE "main_catch"
                 /\ exitCode' = IF w.exc = "terminate" THEN 134 ELSE exitCode
    /\ alive' = FALSE
    /\ UNCHANGED <<priorLen, pares, i, prueba, outcome>>

\* return 0
MainReturn ==
    /\ pc = "return"
    /\ exitCode' = 0
    /\ pc' = "exited"
    /\ UNCHANGED <<logfile, pending, priorLen, isOpen, alive, monitor, coutFixed,
                   pares, i, prueba, outcome, faulty, trace>>

\* variant: main's handler reports the error and falls through to return 0
MainCatch_returns0 ==
    /\ pc = "main_catch"
    /\ Commit(cerr(World(0, 0), "Error crítico del sistema: " \o What(outcome.exc)))
    /\ exitCode' = 0
    /\ pc' = "exited"
    /\ UNCHANGED <<priorLen, alive, pares, i, prueba, outcome>>

\* catch (const exception& ex) of main: message on cerr, return 1
MainCatch ==
    /\ pc = "main_catch"
    /\ Commit(cerr(World(0, 0), "Error crítico del sistema: " \o What(outcome.exc)))
    /\ exitCode' = 1
    /\ pc' = "exited"
    /\ UNCHANGED <<priorLen, alive, pares, i, prueba, outcome>>

(***************************************************************************)
(* Specifications                                                          *)
(***************************************************************************)
\* the entries an earlier, complete run left in system.log
PriorRun == << Entry(INFO, "Sistema iniciado"), Entry(INFO, "Sistema finalizado") >>

RECURSIVE PriorLog(_)
PriorLog(r) == IF r = 0 THEN << >> ELSE PriorLog(r - 1) \o PriorRun

\* the process starts: nothing constructed, system.log as earlier runs left it
ProcessStart ==
    /\ pc = "main_start"
    /\ \E r \in 0..MaxPriorRuns : logfile = PriorLog(r)
    /\ pending = ""
    /\ priorLen = Len(logfile)
    /\ isOpen = FALSE
    /\ alive = FALSE
    /\ monitor = MonitorCtor
    /\ coutFixed = FALSE
    /\ pares = << >>
    /\ i = 0
    /\ prueba = 0
    /\ outcome = NoOutcome
    /\ exitCode = -1
    /\ trace = << >>

\* every allocation succeeds
Init == ProcessStart /\ faulty = FALSE

Next ==
    \/ MainLoggerCtor
    \/ MainMonitorCtor
    \/ MainBanner
    \/ PruebaTry
    \/ PruebaCatch
    \/ MainLista
    \/ NextBatch
    \/ MainShowMetrics
    \/ MainEpilogue
    \/ MainScopeExit
    \/ MainUnwind
    \/ MainReturn
    \/ MainCatch

\* the whole program
Spec == Init /\ [][Next]_vars

\* one allocation of the run, any of them, may fail
InitFault == ProcessStart /\ faulty = TRUE

\* the whole program when memory runs out once
SpecFault == InitFault /\ [][Next]_vars

(***************************************************************************)
(* dividir alone, on operand pairs drawn from Doubles.                     *)
(***************************************************************************)
Doubles ==
    {D(x) : x \in (0 - MaxOperand)..MaxOperand}
    \cup {Fin(1, 1, 2), Fin(-1, 1, 2), NegZero, NaN, Inf(1), Inf(-1)}

CallDividir ==
    /\ pc = "call_dividir"
    /\ outcome' = dividir(pares[1][1], pares[1][2])
    /\ trace' = Append(trace, Ev("dividir", "", "", 0))
    /\ pc' = "returned"
    /\ UNCHANGED <<logfile, pending, priorLen, isOpen, alive, monitor, coutFixed,
                   pares, i, prueba, exitCode, faulty>>

InitDiv ==
    /\ pc = "call_dividir"
    /\ \E a \in Doubles, b \in Doubles : pares = << <<a, b>> >>
    /\ logfile = << >>
    /\ pending = ""
    /\ priorLen = 0
    /\ isOpen = FALSE
    /\ alive = FALSE
    /\ monitor = MonitorCtor
    /\ coutFixed = FALSE
    /\ i = 0
    /\ prueba = 0
    /\ outcome = NoOutcome
    /\ exitCode = -1
    /\ faulty = FALSE
    /\ trace = << >>

SpecDiv == InitDiv /\ [][CallDividir]_vars

(***************************************************************************)
(* A Logger on an empty system.log, as its constructor leaves it.          *)
(***************************************************************************)
Constructed ==
    LoggerCtor([file |-> << >>, pend |-> "", open |-> FALSE, mon |-> MonitorCtor,
                fixed |-> FALSE, trace |-> << >>, at |-> 0, exc |-> "none",
                fuel |-> 0, failed |-> FALSE, bad |-> FALSE, ts |-> "full"], TRUE)

(***************************************************************************)
(* procesarListaNumeros alone, on input sequences drawn from BatchInputs,  *)
(* with the monitor fresh, or as main hands it over, or after a caller has *)
(* shown the metrics.                                                      *)
(***************************************************************************)
BatchOperands == {D(-3), D(0), D(2), D(6)}

RECURSIVE SeqsUpTo(_, _)
SeqsUpTo(S, len) ==
    IF len = 0 THEN {<< >>}
    ELSE LET shorter == SeqsUpTo(S, len - 1)
         IN  shorter \cup {Append(q, x) : q \in shorter, x \in S}

BatchInputs ==
    SeqsUpTo(BatchOperands \X BatchOperands, MaxBatchLen) \cup {listaOperaciones}

\* the monitor main hands over: PRUEBA 1 and 2 failed, PRUEBA 3 succeeded
HandedOver ==
    The({ recordSuccess(recordFailure(recordFailure(Constructed, u), u), u)
          : u \in OverflowOutcomes })

\* showMetrics has been called before the batch: cout is in fixed notation
MetricsShown == showMetrics(HandedOver)

InitBatch ==
    /\ pc = "batch_start"
    /\ pares \in BatchInputs
    /\ \E w \in {Constructed, HandedOver, MetricsShown} :
         /\ monitor = w.mon
         /\ logfile = w.file
         /\ pending = w.pend
         /\ isOpen = w.open
         /\ coutFixed = w.fixed
         /\ trace = w.trace
    /\ priorLen = 0
    /\ alive = TRUE
    /\ i = 0
    /\ prueba = 0
    /\ outcome = NoOutcome
    /\ exitCode = -1
    /\ faulty = FALSE

SpecBatch == InitBatch /\ [][NextBatch]_vars

(***************************************************************************)
(* A SystemMonitor alone, under any sequence of its three operations.      *)
(***************************************************************************)
ShowCount == Cardinality({j \in DOMAIN trace : trace[j].msg = MetricsHeader})

\* the recordings made since the first state
Recordings ==
    Cardinality({j \in DOMAIN trace : trace[j].op \in {"recordSuccess", "recordFailure"}})

MonRecordSuccess ==
    /\ pc = "monitor_idle"
    /\ Recordings < MaxOps
    /\ \E u \in OverflowOutcomes :
         \E w \in {recordSuccess(World(0, 0), u)} :
             /\ Commit(w)
             /\ pc' = Control(w, pc, pc)
             /\ exitCode' = Status(w)
    /\ UNCHANGED <<priorLen, alive, pares, i, prueba, outcome>>

MonRecordFailure ==
    /\ pc = "monitor_idle"
    /\ Recordings < MaxOps
    /\ \E u \in OverflowOutcomes :
         \E w \in {recordFailure(World(0, 0), u)} :
             /\ Commit(w)
             /\ pc' = Control(w, pc, pc)
             /\ exitCode' = Status(w)
    /\ UNCHANGED <<priorLen, alive, pares, i, prueba, outcome>>

MonShowMetrics ==
    /\ pc = "monitor_idle"
    /\ ShowCount < MaxShows
    /\ monitor.totalOperations <= MaxRated
    /\ Commit(showMetrics(World(0, 0)))
    /\ UNCHANGED <<pc, priorLen, alive, pares, i, prueba, outcome, exitCode>>

NextMon == MonRecordSuccess \/ MonRecordFailure \/ MonShowMetrics

InitMon ==
    /\ pc = "monitor_idle"
    /\ monitor = MonitorCtor
    /\ logfile = Constructed.file
    /\ pending = Constructed.pend
    /\ priorLen = 0
    /\ isOpen = Constructed.open
    /\ alive = TRUE
    /\ coutFixed = FALSE
    /\ trace = Constructed.trace
    /\ pares = << >>
    /\ i = 0
    /\ prueba = 0
    /\ outcome = NoOutcome
    /\ exitCode = -1
    /\ faulty = FALSE

SpecMon == InitMon /\ [][NextMon]_vars

(***************************************************************************)
(* A SystemMonitor late in its life: INT_MAX - 1 recordings have been made *)
(* on it since construction (they are not in the trace), LateFailures of   *)
(* them failures, or all but that many.                                    *)
(***************************************************************************)
LateFailures == {0, 1}

LateTallies ==
    UNION { { [totalOperations |-> INT_MAX - 1,
               successfulOperations |-> INT_MAX - 1 - f, failedOperations |-> f],
              [totalOperations |-> INT_MAX - 1,
               successfulOperations |-> f, failedOperations |-> INT_MAX - 1 - f] }
            : f \in LateFailures }

InitMonLate ==
    /\ pc = "monitor_idle"
    /\ monitor \in LateTallies
    /\ logfile = Constructed.file
    /\ pending = Constructed.pend
    /\ priorLen = 0
    /\ isOpen = Constructed.open
    /\ alive = TRUE
    /\ coutFixed = FALSE
    /\ trace = Constructed.trace
    /\ pares = << >>
    /\ i = 0
    /\ prueba = 0
    /\ outcome = NoOutcome
    /\ exitCode = -1
    /\ faulty = FALSE

SpecMonLate == InitMonLate /\ [][NextMon]_vars

(***************************************************************************)
(* Reading the trace.                                                      *)
(***************************************************************************)
IsRecord(e) == e.op \in {"recordSuccess", "recordFailure"}

Count(sq, Test(_)) == Cardinality({j \in DOMAIN sq : Test(sq[j])})

\* the tally the recordings of the trace add up to
TallyOfTrace ==
    [totalOperations |-> Count(trace, IsRecord),
     successfulOperations |-> Count(trace, LAMBDA e : e.op = "recordSuccess"),
     failedOperations |-> Count(trace, LAMBDA e : e.op = "recordFailure")]

(***************************************************************************)
(* C1.  As claimed: in every reachable state of a SystemMonitor (after any *)
(* finite sequence of recordSuccess, recordFailure and showMetrics from    *)
(* construction) the three counters are >= 0 and total == successes +      *)
(* failures, and no step makes a counter smaller.                          *)
(***************************************************************************)
TallyConsistent ==
    /\ monitor.totalOperations >= 0
    /\ monitor.successfulOperations >= 0
    /\ monitor.failedOperations >= 0
    /\ monitor.totalOperations - monitor.successfulOperations
         = monitor.failedOperations

NeverDecreases ==
    /\ monitor'.totalOperations >= monitor.totalOperations
    /\ monitor'.successfulOperations >= monitor.successfulOperations
    /\ monitor'.failedOperations >= monitor.failedOperations

C1_AsClaimed == [](TallyConsistent) /\ [][NeverDecreases]_vars

(***************************************************************************)
(* C2.  The outcome of dividir(a, b).  As claimed, for every operand pair: *)
(* DivisionByZero whenever b == 0; NegativeOperand whenever b != 0 and     *)
(* (a < 0 or b < 0); the quotient a / b, without error, exactly when       *)
(* a >= 0 and b > 0.                                                       *)
(***************************************************************************)
ArgA == pares[1][1]
ArgB == pares[1][2]

\* r is the quotient a / b: by cross-multiplication on finite operands
IsQuotientOf(r, a, b) ==
    IF a.k = "fin" /\ b.k = "fin" /\ b.n # 0
      THEN /\ r.k = "fin"
           /\ r.s = a.s * b.s
           /\ r.n * (a.d * b.n) = r.d * (a.n * b.d)
      ELSE r = Quotient(a, b)

C2_AsClaimed ==
    pc = "returned" =>
      /\ IsZero(ArgB) => outcome = Thrown("DivisionByZeroException")
      /\ (~IsZero(ArgB) /\ (IsNeg(ArgA) \/ IsNeg(ArgB)))
           => outcome = Thrown("NegativeNumberException")
      /\ outcome.ok <=> (IsGeqZero(ArgA) /\ IsPos(ArgB))
      /\ outcome.ok => IsQuotientOf(outcome.val, ArgA, ArgB)

(***************************************************************************)
(* C2, amended.  The claim holds for every operand pair in which neither   *)
(* operand is NaN.  With a NaN operand every comparison with it is false:  *)
(* b == 0 still fails with DivisionByZero, a negative other operand still  *)
(* fails with NegativeOperand, and otherwise NaN is returned without       *)
(* error although a >= 0 and b > 0 does not hold.                          *)
(***************************************************************************)
C2_DividirOutcome ==
    pc = "returned" =>
      /\ IsZero(ArgB) => outcome = Thrown("DivisionByZeroException")
      /\ (~IsZero(ArgB) /\ (IsNeg(ArgA) \/ IsNeg(ArgB)))
           => outcome = Thrown("NegativeNumberException")
      /\ (~IsNaN(ArgA) /\ ~IsNaN(ArgB))
           => (outcome.ok <=> (IsGeqZero(ArgA) /\ IsPos(ArgB)))
      /\ (IsNaN(ArgA) \/ IsNaN(ArgB))
           => (outcome.ok <=> (~IsZero(ArgB) /\ ~IsNeg(ArgA) /\ ~IsNeg(ArgB)))
      /\ (outcome.ok /\ (IsNaN(ArgA) \/ IsNaN(ArgB))) => IsNaN(outcome.val)
      /\ outcome.ok => IsQuotientOf(outcome.val, ArgA, ArgB)

\* a negative dividend over a zero divisor: the zero check came first
C2_Witness ==
    /\ pc = "returned"
    /\ IsNeg(ArgA)
    /\ IsZero(ArgB)
    /\ outcome.exc = "DivisionByZeroException"

(***************************************************************************)
(* C3.  The batch [(100,5),(50,0),(81,9),(-10,2),(200,10),(7,0),(144,12),  *)
(* (-50,-5)] ends with the tally {total=8, successes=4, failures=4} (on    *)
(* top of what the monitor held at the call): the successes are pairs 1,   *)
(* 3, 5 and 7, the failures the two zero divisors (2, 6) and the two       *)
(* negative-operand pairs (4, 8).                                          *)
(***************************************************************************)
ItemsWhere(Test(_)) == {trace[j].at : j \in {x \in DOMAIN trace : Test(trace[x])}}

\* what the monitor held when procesarListaNumeros was called: the recordings
\* made outside any item
TallyAtCall ==
    [totalOperations |-> Count(trace, LAMBDA e : IsRecord(e) /\ e.at = 0),
     successfulOperations |->
         Count(trace, LAMBDA e : e.op = "recordSuccess" /\ e.at = 0),
     failedOperations |->
         Count(trace, LAMBDA e : e.op = "recordFailure" /\ e.at = 0)]

C3_BatchTally ==
    (pc = "batch_done" /\ pares = listaOperaciones) =>
      /\ monitor.totalOperations = TallyAtCall.totalOperations + 8
      /\ monitor.successfulOperations = TallyAtCall.successfulOperations + 4
      /\ monitor.failedOperations = TallyAtCall.failedOperations + 4
      /\ ItemsWhere(LAMBDA e : e.op = "recordSuccess" /\ e.at # 0) = {1, 3, 5, 7}
      /\ ItemsWhere(LAMBDA e : e.op = "recordFailure" /\ e.at # 0) = {2, 4, 6, 8}
      /\ ItemsWhere(LAMBDA e : e.op = "cerr"
                       /\ e.msg = Cross \o What("DivisionByZeroException")) = {2, 6}
      /\ ItemsWhere(LAMBDA e : e.op = "cerr"
                       /\ e.msg = Cross \o What("NegativeNumberException")) = {4, 8}

\* the batch has run on a fresh monitor
C3_Witness ==
    /\ pc = "batch_done"
    /\ pares = listaOperaciones
    /\ monitor = [totalOperations |-> 8, successfulOperations |-> 4,
                  failedOperations |-> 4]

(***************************************************************************)
(* C4.  procesarListaNumeros works the pairs in index order, each exactly  *)
(* once, and a failing pair never aborts the batch: control is always at   *)
(* a position of the loop that has a step to take, or at the end (an       *)
(* action is its position test and assignments that are always defined,    *)
(* and every step lengthens the trace, so the loop ends); at the end       *)
(* exactly one recording was made per pair (total grew by n); and for each *)
(* pair the DEBUG announcement precedes the division and the outcome is    *)
(* logged before it is recorded.                                           *)
(***************************************************************************)
\* what is seen of item j, as <<op, lvl>> pairs in order
ItemEvents(j) ==
    LET own == SelectSeq(trace, LAMBDA e : e.at = j)
    IN  [x \in DOMAIN own |-> <<own[x].op, own[x].lvl>>]

ItemSucceeds ==
    << <<"cout", "">>, <<"log", "DEBUG">>, <<"dividir", "">>,
       <<"cout", "">>, <<"log", "INFO">>, <<"recordSuccess", "">>,
       <<"sleep", "">> >>

ItemFails ==
    << <<"cout", "">>, <<"log", "DEBUG">>, <<"dividir", "">>,
       <<"cerr", "">>, <<"log", "ERROR">>, <<"recordFailure", "">>,
       <<"sleep", "">> >>

IsPrefix(p, q) == Len(p) <= Len(q) /\ SubSeq(q, 1, Len(p)) = p

\* the recordings made for items, in the order they were made
ItemRecords == SelectSeq(trace, LAMBDA e : IsRecord(e) /\ e.at # 0)

C4_BatchOrder ==
    /\ pc \in {"batch_start", "batch_loop", "batch_try", "batch_catch",
               "batch_sleep", "batch_done"}
    /\ pc \in {"batch_try", "batch_catch", "batch_sleep"} => i \in 1..Len(pares)
    /\ pc = "batch_loop" => i \in 1..(Len(pares) + 1)
    /\ pc = "batch_catch" => ~outcome.ok
    \* items are worked one after the other, in index order
    /\ \A x, y \in DOMAIN trace :
         (x < y /\ trace[x].at # 0 /\ trace[y].at # 0) => trace[x].at <= trace[y].at
    \* the j-th recording is the one of pair j
    /\ \A j \in DOMAIN ItemRecords : ItemRecords[j].at = j
    /\ Len(ItemRecords) <= Len(pares)
    \* each item runs the announce, divide, log, record, sleep sequence
    /\ \A j \in 1..Len(pares) :
         LET seen == ItemEvents(j)
         IN  /\ IsPrefix(seen, ItemSucceeds) \/ IsPrefix(seen, ItemFails)
             /\ (j < i \/ pc = "batch_done")
                  => seen = (IF dividir(pares[j][1], pares[j][2]).ok
                               THEN ItemSucceeds ELSE ItemFails)
    /\ pc = "batch_done" =>
         /\ Len(ItemRecords) = Len(pares)
         /\ monitor.totalOperations = TallyAtCall.totalOperations + Len(pares)

\* a batch of two pairs, the first of which failed, has reached the end
C4_Witness ==
    /\ pc = "batch_done"
    /\ Len(pares) = 2
    /\ ItemEvents(1) = ItemFails
    /\ ItemEvents(2) = ItemSucceeds

(***************************************************************************)
(* What this run appended to system.log.                                   *)
(***************************************************************************)
RunEntries == SubSeq(logfile, priorLen + 1, Len(logfile))

Started == Entry(INFO, "Sistema iniciado")
Finished == Entry(INFO, "Sistema finalizado")

Happened(op) == \E j \in DOMAIN trace : trace[j].op = op
Times(op) == Count(trace, LAMBDA e : e.op = op)

(***************************************************************************)
(* C5.  As claimed: after any run, the entries the run appended hold       *)
(* exactly one "Sistema iniciado" entry and, after normal termination,     *)
(* exactly one "Sistema finalizado" entry; the former is the first entry   *)
(* of the run and the latter the last.                                     *)
(***************************************************************************)
C5_AsClaimed ==
    pc = "exited" =>
      /\ Count(RunEntries, LAMBDA e : e = Started) = 1
      /\ RunEntries[1] = Started
      /\ exitCode = 0 =>
           /\ Count(RunEntries, LAMBDA e : e = Finished) = 1
           /\ RunEntries[Len(RunEntries)] = Finished

(***************************************************************************)
(* C5, amended.  After any run in which the log file was opened, the       *)
(* entries the run appended hold exactly one "Sistema iniciado" entry, the *)
(* first of the run, and after normal termination exactly one "Sistema     *)
(* finalizado" entry, the last; a run that cannot open the log file        *)
(* appends no entry.  What earlier runs wrote is left as it was.           *)
(***************************************************************************)
C5_RunEntries ==
    /\ SubSeq(logfile, 1, priorLen) = PriorLog(priorLen \div Len(PriorRun))
    /\ Happened("open") =>
         /\ Count(RunEntries, LAMBDA e : e = Started) = 1
         /\ RunEntries[1] = Started
    /\ ~Happened("open") => RunEntries = << >>
    /\ Count(RunEntries, LAMBDA e : e = Finished) <= 1
    /\ (pc = "exited" /\ exitCode = 0) =>
         /\ Happened("open")
         /\ Count(RunEntries, LAMBDA e : e = Finished) = 1
         /\ RunEntries[Len(RunEntries)] = Finished

\* a complete run on top of the entries of an earlier one
C5_Witness ==
    /\ pc = "exited"
    /\ exitCode = 0
    /\ priorLen > 0
    /\ RunEntries[1] = Started
    /\ RunEntries[Len(RunEntries)] = Finished

(***************************************************************************)
(* C6.  As claimed: Logger teardown (the final "Sistema finalizado" entry, *)
(* then the release of the handle) happens exactly once per successfully   *)
(* constructed logger on every path out of the logger's scope in main, the *)
(* path on which an exception leaves main's try block included, and        *)
(* nothing is logged after the release.                                    *)
(***************************************************************************)
\* the constructor ran to its end: its last statement logged the first entry
LoggerConstructed ==
    \E j \in DOMAIN trace : trace[j] = Ev("log", "INFO", "Sistema iniciado", 0)

\* control is past the end of the logger's scope
ScopeLeft == pc \in {"main_catch", "return", "exited", "aborted"}

\* the teardowns made: the final entry, followed at once by the release
Teardowns ==
    Cardinality({p \in DOMAIN trace :
                   /\ trace[p].op = "log"
                   /\ trace[p].msg = "Sistema finalizado"
                   /\ p < Len(trace)
                   /\ trace[p + 1].op = "close"})

C6_AsClaimed ==
    /\ Teardowns <= 1
    /\ ~LoggerConstructed => Teardowns = 0
    /\ (ScopeLeft /\ LoggerConstructed) =>
         /\ Teardowns = 1
         /\ ~isOpen
         /\ logfile[Len(logfile)].msg = "Sistema finalizado"
    \* nothing is logged once the handle is released
    /\ \A p \in DOMAIN trace :
         trace[p].op = "close" =>
           \A q \in (p + 1)..Len(trace) : trace[q].op # "log"

(***************************************************************************)
(* C7.  The exit code is 0 on normal completion and 1 if the log file      *)
(* cannot be opened; in that case the constructor throws before any log    *)
(* entry is written, no trial runs, no tally operation is made, and the    *)
(* message goes to the error stream.  A DivisionByZero or NegativeOperand  *)
(* never reaches main's handler.                                           *)
(***************************************************************************)
MathExceptions == {"DivisionByZeroException", "NegativeNumberException"}

C7_ExitCode ==
    /\ exitCode \in {-1, 0, 1}
    /\ exitCode # -1 <=> pc = "exited"
    /\ pc = "exited" =>
         /\ exitCode = 1 <=> Happened("open_failed")
         /\ exitCode = 0 <=> Happened("open")
         /\ exitCode = 0 =>
              \E j \in DOMAIN trace :
                 trace[j].op = "cout" /\ trace[j].msg = "  EJECUCIÓN COMPLETADA"
    /\ Happened("open_failed") =>
         /\ RunEntries = << >>
         /\ ~Happened("log")
         /\ ~Happened("dividir")
         /\ ~Happened("SystemMonitor")
         /\ ~Happened("recordSuccess")
         /\ ~Happened("recordFailure")
         /\ monitor = MonitorCtor
         /\ pc = "exited" =>
              /\ Times("cerr") = 1
              /\ trace[Len(trace)]
                   = Ev("cerr", "", "Error crítico del sistema: "
                                    \o "No se pudo abrir el archivo de log: system.log", 0)
    /\ pc \in {"unwind", "main_catch"} => outcome.exc \notin MathExceptions
    /\ exitCode = 1 => outcome.exc \notin MathExceptions

\* the log file could not be opened: exit code 1, system.log as it was
C7_Witness ==
    /\ pc = "exited"
    /\ exitCode = 1
    /\ priorLen > 0
    /\ Len(logfile) = priorLen
    /\ Happened("open_failed")

(***************************************************************************)
(* C8.  Every recordFailure is immediately preceded by one ERROR log       *)
(* entry, itself preceded by one error-stream message, for the same error; *)
(* the ERROR entries of the run are as many as the failures of the tally;  *)
(* and a success never writes an ERROR entry.                              *)
(***************************************************************************)
C8_FailureReported ==
    /\ \A p \in DOMAIN trace :
         /\ trace[p].op = "recordFailure" =>
              /\ p > 2
              /\ \E e \in AllExceptions :
                   /\ trace[p - 1] = Ev("log", "ERROR",
                                        "Excepción capturada: " \o What(e), trace[p].at)
                   /\ trace[p - 2].op = "cerr"
                   /\ trace[p - 2].at = trace[p].at
                   /\ trace[p - 2].msg \in
                        {Cross \o What(e), Cross \o "Excepción inesperada: " \o What(e)}
         /\ (trace[p].op = "log" /\ trace[p].lvl = "ERROR") =>
              /\ p < Len(trace)
              /\ trace[p + 1].op = "recordFailure"
         /\ trace[p].op = "recordSuccess" =>
              /\ p > 1
              /\ ~(trace[p - 1].op = "log" /\ trace[p - 1].lvl = "ERROR")
              /\ trace[p - 1].op # "cerr"
    /\ Count(RunEntries, LAMBDA e : e.level = "ERROR") = monitor.failedOperations
    /\ Times("recordFailure") = monitor.failedOperations

\* the run is over and its six failures were all reported
C8_Witness ==
    /\ pc = "exited"
    /\ exitCode = 0
    /\ monitor.failedOperations = 6
    /\ Count(RunEntries, LAMBDA e : e.level = "ERROR") = 6
    /\ Times("cerr") = 6

(***************************************************************************)
(* C9.  As claimed: the rate showMetrics / logMetrics report is 0% when    *)
(* total is 0 and successes * 100 / total otherwise, with two decimals     *)
(* (3 of 4 is 75.00%); showMetrics hands logMetrics the counts it prints,  *)
(* writes one INFO entry and leaves the tally as it was.                   *)
(***************************************************************************)
ClaimedRate(totalOps, successOps) ==
    IF totalOps = 0 THEN "0"
    ELSE FormatFixed(Fin(1, successOps * 100, totalOps), 2)

\* showMetrics was the last operation
MetricsJustShown ==
    /\ Len(trace) > 6
    /\ trace[Len(trace)].op = "log"
    /\ trace[Len(trace) - 1] = Ev("cout", "", "==========================================", 0)

C9_AsClaimed ==
    MetricsJustShown =>
      LET m == monitor
          claimed == MetricsText(m.totalOperations, m.successfulOperations,
                                 m.failedOperations,
                                 ClaimedRate(m.totalOperations, m.successfulOperations))
      IN  /\ trace[Len(trace)] = Ev("log", "INFO", claimed, 0)
          /\ logfile[Len(logfile)] = Entry(INFO, claimed)
          /\ monitor = TallyOfTrace

(***************************************************************************)
(* C10.  The three single trials and the batch share one monitor that is   *)
(* never reset: the tally is {1,0,1} after PRUEBA 1, {2,0,2} after PRUEBA  *)
(* 2, {3,1,2} after PRUEBA 3, and showMetrics prints and logs total=11,    *)
(* successes=5, failures=6 at the end of a normal run.                     *)
(***************************************************************************)
Tally(t, ok, ko) ==
    [totalOperations |-> t, successfulOperations |-> ok, failedOperations |-> ko]

Printed(text) == \E j \in DOMAIN trace : trace[j] = Ev("cout", "", text, 0)

C10_CumulativeTally ==
    /\ (pc = "prueba_try" /\ prueba = 1) => monitor = Tally(0, 0, 0)
    /\ (pc = "prueba_try" /\ prueba = 2) => monitor = Tally(1, 0, 1)
    /\ (pc = "prueba_try" /\ prueba = 3) => monitor = Tally(2, 0, 2)
    /\ pc \in {"lista", "batch_start"} => monitor = Tally(3, 1, 2)
    /\ pc \in {"batch_done", "epilogue", "scope_exit", "return"}
         => monitor = Tally(11, 5, 6)
    /\ (pc = "exited" /\ exitCode = 0) => monitor = Tally(11, 5, 6)
    /\ pc \in {"epilogue", "scope_exit"} =>
         /\ Printed("Total de operaciones: 11")
         /\ Printed("Operaciones exitosas: 5")
         /\ Printed("Operaciones fallidas: 6")
         \* the counts of the log line, whichever way its rate is written
         /\ \E rate \in {"45.4545", "45.45"} :
              logfile[Len(logfile)] = Entry(INFO, MetricsText(11, 5, 6, rate))
    /\ monitor = TallyOfTrace

\* the metrics of a normal run have been shown
C10_Witness ==
    /\ pc = "epilogue"
    /\ monitor = Tally(11, 5, 6)
    /\ Printed("Total de operaciones: 11")

====
